---- MODULE Spec2Model ----
(***************************************************************************)
(* series_viewer: three orthogonal slices of a 3D volume, with index       *)
(* sliders, clamp-range sliders, crosshairs, palette and visibility        *)
(* controls.  Two implementations live in the repository and both are      *)
(* modelled: the script app/main.py (module-level dictionaries and         *)
(* callbacks) and the class Series with its PlaneFigure objects            *)
(* (app/utils/series.py, app/utils/plane_figure.py).                       *)
(*                                                                         *)
(* A widget property assignment (slider.value = v) runs the widget's       *)
(* on_change callbacks synchronously, and only when the new value differs  *)
(* from the old one.  An exception raised inside a callback unwinds        *)
(* through every caller up to the event handler; the assignments made      *)
(* before the raise stay.                                                  *)
(***************************************************************************)
EXTENDS Integers, Sequences, FiniteSets, TLC

VARIABLES
    app,            \* which implementation this run executes: "main" | "series"
    data,           \* the 3D volume: [shape |-> <<A0,A1,A2>>, val |-> [<<i,j,k>> -> Int]]
    started,        \* FALSE until the startup code has run
    \* ---- app/main.py ------------------------------------------------------
    index_sliders,  \* Plane -> value of the index Slider
    range_sliders,  \* Plane -> [start, end, value, disabled] of the RangeSlider
    sources,        \* Plane -> [image |-> dict(image,dw,dh), crosshair |-> dict(x,y)]
    \* ---- Series / PlaneFigure ---------------------------------------------
    plane_indices,  \* Plane -> one-element list holding the plane's index
    sliders,        \* Plane -> value of the Slider
    figures,        \* Plane -> PlaneFigure [_image, source, crosshair_source, histogram]
    \* ---- both: presentation state -----------------------------------------
    palette_select, \* value of the palette Select
    crosshair_color_select, \* value of the crosshair colour Select
    palette,        \* Plane -> palette name of the image glyph's colour mapper
    line_color,     \* Plane -> crosshair line colour
    crosshair_visible, \* Plane -> BOOLEAN
    axes_visible,   \* Plane -> BOOLEAN
    checkbox_active,\* active set of the visibility CheckboxButtonGroup
    \* ---- observation of the last handled event ----------------------------
    event,          \* the last handled event: [type, plane]
    raised,         \* TRUE iff the last event's handling ended in an exception
    take_calls,     \* {<<plane, index>>}: get_image_data calls of the last event
    fix_calls,      \* {<<plane, index, result>>}: fix_index calls of the last event
    slices_set,     \* planes whose source image the last event wrote
    cross_set,      \* planes whose crosshair the last event recomputed
    displayed,      \* Plane -> <<k>>: the source image was taken at slice k (<<>>: none)
    \* ---- app/main.py and Series side by side -------------------------------
    twin_displayed, \* `displayed` of the Series that is fed the events of app/main.py
    \* ---- several Series instances in one process ---------------------------
    process         \* the class attributes of Series and the objects they refer to

vars == <<app, data, started, index_sliders, range_sliders, sources,
          plane_indices, sliders, figures, palette_select,
          crosshair_color_select, palette, line_color,
          crosshair_visible, axes_visible, checkbox_active,
          event, raised, take_calls, fix_calls, slices_set, cross_set,
          displayed, twin_displayed, process>>

-----------------------------------------------------------------------------
(* Bounds of the model *)

\* how far beyond [0, axis_size-1] a wheel event may still push a raw slider value
MaxDrift == 2
\* the same, in the runs that exercise the presentation widgets
WidgetsDrift == 1
\* how many entries of each colour list the colour select offers
MaxColors == 2
\* how many Series instances one process creates
MaxInstances == 2

-----------------------------------------------------------------------------
(* Planes and the crosshair table *)

\* the keys of `figures`, in dictionary order
PlaneOrder == <<"TRANSVERSE", "SAGITTAL", "CORONAL">>

Plane == {PlaneOrder[n] : n \in 1..3}

\* Plane.<name>.value: the volume axis a plane is bound to
PlaneValue(plane) ==
    CASE plane = "TRANSVERSE" -> 0
      [] plane = "SAGITTAL" -> 1
      [] plane = "CORONAL" -> 2

CrosshairLines == {"HORIZONTAL", "VERTICAL"}

\* a table in which TRANSVERSE drives its own horizontal line
crosshair_line_dict_own ==
    [plane \in Plane |->
        CASE plane = "TRANSVERSE" ->
                [HORIZONTAL |-> "TRANSVERSE", VERTICAL |-> "SAGITTAL"]
          [] plane = "SAGITTAL" ->
                [HORIZONTAL |-> "TRANSVERSE", VERTICAL |-> "CORONAL"]
          [] plane = "CORONAL" ->
                [HORIZONTAL |-> "TRANSVERSE", VERTICAL |-> "SAGITTAL"]]

crosshair_line_dict ==
    [plane \in Plane |->
        CASE plane = "TRANSVERSE" ->
                [HORIZONTAL |-> "CORONAL", VERTICAL |-> "SAGITTAL"]
          [] plane = "SAGITTAL" ->
                [HORIZONTAL |-> "TRANSVERSE", VERTICAL |-> "CORONAL"]
          [] plane = "CORONAL" ->
                [HORIZONTAL |-> "TRANSVERSE", VERTICAL |-> "SAGITTAL"]]

-----------------------------------------------------------------------------
(* Arrays.  A 2D array is [shape |-> <<rows, cols>>, val |-> [<<r,c>> -> Int]], *)
(* indexed from 0 as in numpy; a list is a sequence.                       *)

Array2(rows, cols, f(_, _)) ==
    [shape |-> <<rows, cols>>,
     val |-> [rc \in (0..rows-1) \X (0..cols-1) |-> f(rc[1], rc[2])]]

\* data.shape[axis]
axis_size(plane) == data.shape[PlaneValue(plane) + 1]

\* np.take(data, index, axis): a sequence holding the 2D result, or the empty
\* sequence for IndexError.  Negative indices count from the end.
np_take(index, axis) ==
    LET n == data.shape[axis + 1]
        i == IF index < 0 THEN index + n ELSE index
    IN  IF index >= n \/ index < -n
        THEN <<>>
        ELSE CASE axis = 0 ->
                    <<Array2(data.shape[2], data.shape[3],
                             LAMBDA r, c : data.val[<<i, r, c>>])>>
               [] axis = 1 ->
                    <<Array2(data.shape[1], data.shape[3],
                             LAMBDA r, c : data.val[<<r, i, c>>])>>
               [] axis = 2 ->
                    <<Array2(data.shape[1], data.shape[2],
                             LAMBDA r, c : data.val[<<r, c, i>>])>>

np_transpose(image) ==
    Array2(image.shape[2], image.shape[1], LAMBDA r, c : image.val[<<c, r>>])

SetMin(S) == CHOOSE x \in S : \A y \in S : x <= y
SetMax(S) == CHOOSE x \in S : \A y \in S : x >= y

Samples(image) == {image.val[rc] : rc \in DOMAIN image.val}

image_min(image) == SetMin(Samples(image))
image_max(image) == SetMax(Samples(image))

\* np.arange(n)
np_arange(n) == [k \in 1..n |-> k - 1]

\* [value] * n
Repeat(value, n) == [k \in 1..n |-> value]

\* int(x) for a coordinate given in half units (x = halves / 2): truncation
\* toward zero
int_of_halves(halves) ==
    IF halves >= 0 THEN halves \div 2 ELSE -((-halves) \div 2)

\* a clamp that saturates at max_value only
Clamp_upper_only(image, min_value, max_value) ==
    [shape |-> image.shape,
     val |-> [rc \in DOMAIN image.val |->
                IF image.val[rc] >= max_value THEN max_value ELSE image.val[rc]]]

\* a clamp that moves every sample outside the bounds one unit towards them
Clamp_stepwise(image, min_value, max_value) ==
    [shape |-> image.shape,
     val |-> [rc \in DOMAIN image.val |->
                IF image.val[rc] > max_value THEN image.val[rc] - 1
                ELSE IF image.val[rc] < min_value THEN image.val[rc] + 1
                ELSE image.val[rc]]]

\* the clamp of change_displayed_range: first >= max_value, then <= min_value
Clamp(image, min_value, max_value) ==
    LET upper(v) == IF v >= max_value THEN max_value ELSE v
        lower(v) == IF v <= min_value THEN min_value ELSE v
    IN  [shape |-> image.shape,
         val |-> [rc \in DOMAIN image.val |-> lower(upper(image.val[rc]))]]

-----------------------------------------------------------------------------
(* app/main.py: pure helpers *)

\* get_image_data that transposes no plane
get_image_data_untransposed(plane, index) == np_take(index, PlaneValue(plane))

get_image_data(plane, index) ==
    LET image == np_take(index, PlaneValue(plane))
    IN  IF image = <<>> THEN <<>>
        ELSE IF plane \in {"CORONAL", "SAGITTAL"}
             THEN <<np_transpose(image[1])>>
             ELSE image

\* fix_index that clamps to the nearest end instead of wrapping
fix_index_clamping(plane, index) ==
    IF index >= axis_size(plane) THEN axis_size(plane) - 1
    ELSE IF index < 0 THEN 0
    ELSE index

fix_index(plane, index) ==
    IF index >= axis_size(plane) THEN 0
    ELSE IF index < 0 THEN axis_size(plane) - 1
    ELSE index

-----------------------------------------------------------------------------
(* The state a handler works on.  A handler is a composition of operators  *)
(* on this record, one per statement or callee, in the order of the code.  *)

State ==
    [index_sliders |-> index_sliders, range_sliders |-> range_sliders,
     sources |-> sources, plane_indices |-> plane_indices,
     sliders |-> sliders, figures |-> figures,
     palette_select |-> palette_select,
     crosshair_color_select |-> crosshair_color_select,
     palette |-> palette, line_color |-> line_color,
     crosshair_visible |-> crosshair_visible, axes_visible |-> axes_visible,
     checkbox_active |-> checkbox_active, displayed |-> displayed,
     raised |-> FALSE, take_calls |-> {}, fix_calls |-> {},
     slices_set |-> {}, cross_set |-> {}]

\* the slice index np.take resolves `index` to (negative indices count from the end)
TakenAt(plane, index) == IF index < 0 THEN index + axis_size(plane) ELSE index

\* f applied for each plane of `figures`, in dictionary order
ForEachPlane(st, f(_, _)) ==
    f(f(f(st, PlaneOrder[1]), PlaneOrder[2]), PlaneOrder[3])

-----------------------------------------------------------------------------
(* app/main.py: display state *)

\* sources[plane]['image'].data['image'][0], or None (here <<>>) on IndexError
get_image_from_source(st, plane) == st.sources[plane].image.image

create_image_data_source(image) ==
    [image |-> <<image>>, dw |-> <<image.shape[2]>>, dh |-> <<image.shape[1]>>]

update_image_source(st, plane, image) ==
    [st EXCEPT !.sources[plane].image = create_image_data_source(image),
               !.slices_set = @ \cup {plane}]

get_crosshair_line_plane(plane, line) == crosshair_line_dict[plane][line]

get_crosshair_index(st, plane, line) ==
    st.index_sliders[get_crosshair_line_plane(plane, line)]

get_crosshair_indices(st, plane) ==
    <<get_crosshair_index(st, plane, "VERTICAL"),
      get_crosshair_index(st, plane, "HORIZONTAL")>>

update_crosshair_source(st, plane, vertical_line, horizontal_line) ==
    [st EXCEPT !.sources[plane].crosshair =
                    [x |-> <<np_arange(Len(horizontal_line)), vertical_line>>,
                     y |-> <<horizontal_line, np_arange(Len(vertical_line))>>],
               !.cross_set = @ \cup {plane}]

\* update_crosshair with the two extents exchanged
update_crosshair_swapped(st, plane) ==
    LET xy == get_crosshair_indices(st, plane)
        image == get_image_from_source(st, plane)[1]
        horizontal_line == Repeat(xy[2], image.shape[1])
        vertical_line == Repeat(xy[1], image.shape[2])
    IN  update_crosshair_source(st, plane, vertical_line, horizontal_line)

update_crosshair(st, plane) ==
    LET xy == get_crosshair_indices(st, plane)
        image == get_image_from_source(st, plane)[1]
        horizontal_line == Repeat(xy[2], image.shape[2])
        vertical_line == Repeat(xy[1], image.shape[1])
    IN  update_crosshair_source(st, plane, vertical_line, horizontal_line)

\* update_crosshairs that ignores `skip`
update_crosshairs_no_skip(st, skip) ==
    LET step(s, plane) ==
            IF get_image_from_source(s, plane) # <<>>
            THEN update_crosshair(s, plane)
            ELSE s
    IN  ForEachPlane(st, step)

update_crosshairs(st, skip) ==
    LET step(s, plane) ==
            IF plane # skip /\ get_image_from_source(s, plane) # <<>>
            THEN update_crosshair(s, plane)
            ELSE s
    IN  ForEachPlane(st, step)

\* the 'value' callback of a range slider
change_displayed_range(st, new, plane) ==
    LET min_value == new[1]
        max_value == new[2]
        index == st.index_sliders[plane]
        got == get_image_data(plane, index)
        s0 == [st EXCEPT !.take_calls = @ \cup {<<plane, index>>}]
    IN  IF got = <<>>
        THEN [s0 EXCEPT !.raised = TRUE]
        ELSE [s0 EXCEPT !.sources[plane].image.image =
                            <<Clamp(got[1], min_value, max_value)>>,
                        !.slices_set = @ \cup {plane},
                        !.displayed[plane] = <<TakenAt(plane, index)>>]

\* range_sliders[plane].value = value, with its on_change('value') callback
set_range_slider_value(st, plane, value) ==
    IF st.range_sliders[plane].value = value
    THEN st
    ELSE change_displayed_range(
            [st EXCEPT !.range_sliders[plane].value = value], value, plane)

\* update_values_range that leaves start and end as they are
update_values_range_kept(st, plane) ==
    LET image == get_image_from_source(st, plane)[1]
        s0 == [st EXCEPT !.range_sliders[plane].disabled = (image_max(image) = 0)]
    IN  set_range_slider_value(s0, plane, <<image_min(image), image_max(image)>>)

\* update_values_range without the zero-maximum branch
update_values_range_unguarded(st, plane) ==
    LET image == get_image_from_source(st, plane)[1]
        s0 == [st EXCEPT !.range_sliders[plane].start = image_min(image),
                         !.range_sliders[plane].end = image_max(image),
                         !.range_sliders[plane].disabled = FALSE]
    IN  set_range_slider_value(s0, plane, <<image_min(image), image_max(image)>>)

update_values_range(st, plane) ==
    LET image == get_image_from_source(st, plane)[1]
        s0 == IF image_max(image) # 0
              THEN [st EXCEPT !.range_sliders[plane].start = image_min(image),
                              !.range_sliders[plane].end = image_max(image),
                              !.range_sliders[plane].disabled = FALSE]
              ELSE [st EXCEPT !.range_sliders[plane].start = image_min(image),
                              !.range_sliders[plane].end = 1,
                              !.range_sliders[plane].disabled = TRUE]
    IN  set_range_slider_value(s0, plane, <<image_min(image), image_max(image)>>)

set_image(st, plane, index) ==
    LET got == get_image_data(plane, index)
        s0 == [st EXCEPT !.take_calls = @ \cup {<<plane, index>>}]
    IN  IF got = <<>>
        THEN [s0 EXCEPT !.raised = TRUE]
        ELSE LET s1 == [update_image_source(s0, plane, got[1])
                            EXCEPT !.displayed[plane] = <<TakenAt(plane, index)>>]
                 s2 == update_crosshairs(s1, plane)
             IN  update_values_range(s2, plane)

\* the 'value' callback of an index slider
update_plane_index(st, new, plane) ==
    set_image([st EXCEPT !.fix_calls =
                            @ \cup {<<plane, new, fix_index(plane, new)>>}],
              plane, fix_index(plane, new))

\* index_sliders[plane].value = value, with its on_change('value') callback
set_index_slider_value(st, plane, value) ==
    IF st.index_sliders[plane] = value
    THEN st
    ELSE update_plane_index(
            [st EXCEPT !.index_sliders[plane] = value], value, plane)

handle_mouse_wheel(st, delta, plane) ==
    LET current_value == st.index_sliders[plane]
    IN  IF delta > 0 THEN set_index_slider_value(st, plane, current_value + 1)
        ELSE IF delta < 0 THEN set_index_slider_value(st, plane, current_value - 1)
        ELSE st

\* handle_tap that moves the tapped plane instead of the vertical line's plane
handle_tap_own_plane(st, event_x, event_y, plane) ==
    LET x == int_of_halves(event_x)
        y == int_of_halves(event_y)
        y_plane == crosshair_line_dict[plane]["HORIZONTAL"]
        s1 == set_index_slider_value(st, plane, x)
    IN  IF s1.raised THEN s1 ELSE set_index_slider_value(s1, y_plane, y)

\* event.x and event.y are given in half units
handle_tap(st, event_x, event_y, plane) ==
    LET x == int_of_halves(event_x)
        y == int_of_halves(event_y)
        x_plane == crosshair_line_dict[plane]["VERTICAL"]
        y_plane == crosshair_line_dict[plane]["HORIZONTAL"]
        s1 == set_index_slider_value(st, x_plane, x)
    IN  IF s1.raised THEN s1 ELSE set_index_slider_value(s1, y_plane, y)

\* the module-level loop that ends the script
main_startup(st) ==
    LET step(s, plane) == IF s.raised THEN s ELSE set_image(s, plane, 0)
    IN  ForEachPlane(st, step)

-----------------------------------------------------------------------------
(* app/utils/series.py and app/utils/plane_figure.py *)

Series_fix_image_orientation(plane, image) ==
    IF plane \in {"SAGITTAL", "CORONAL"} THEN np_transpose(image) ELSE image

Series_fix_index(plane, index) ==
    IF index >= axis_size(plane) THEN 0
    ELSE IF index < 0 THEN axis_size(plane) - 1
    ELSE index

Series_get_plane_index(st, plane) == st.plane_indices[plane][1]

Series_get_image_data(plane, index) == np_take(index, PlaneValue(plane))

Series_get_reoriented_image(plane, index) ==
    LET image == Series_get_image_data(plane, index)
    IN  IF image = <<>> THEN <<>>
        ELSE <<Series_fix_image_orientation(plane, image[1])>>

PlaneFigure_update_image_source(st, plane, image) ==
    [st EXCEPT !.figures[plane].source =
                    [image |-> <<image>>, dw |-> <<image.shape[2]>>,
                     dh |-> <<image.shape[1]>>],
               !.slices_set = @ \cup {plane}]

\* PlaneFigure.width and PlaneFigure.height
PlaneFigure_width(st, plane) == st.figures[plane]._image[1].shape[2]
PlaneFigure_height(st, plane) == st.figures[plane]._image[1].shape[1]

PlaneFigure_update_crosshair_source(st, plane, vertical_line, horizontal_line) ==
    [st EXCEPT !.figures[plane].crosshair_source =
                    [x |-> <<np_arange(PlaneFigure_width(st, plane)), vertical_line>>,
                     y |-> <<horizontal_line, np_arange(PlaneFigure_height(st, plane))>>],
               !.cross_set = @ \cup {plane}]

PlaneFigure_update_crosshair(st, plane, x, y) ==
    LET horizontal_line == Repeat(y, PlaneFigure_width(st, plane))
        vertical_line == Repeat(x, PlaneFigure_height(st, plane))
    IN  PlaneFigure_update_crosshair_source(st, plane, vertical_line, horizontal_line)

\* the 'value' callback of a figure's histogram range slider
PlaneFigure_change_displayed_range(st, new, plane) ==
    LET min_value == new[1]
        max_value == new[2]
        new_image == Clamp(st.figures[plane]._image[1], min_value, max_value)
    IN  PlaneFigure_update_image_source(st, plane, new_image)

\* histogram.value = value, with its on_change('value') callback
set_histogram_value(st, plane, value) ==
    IF st.figures[plane].histogram.value = value
    THEN st
    ELSE PlaneFigure_change_displayed_range(
            [st EXCEPT !.figures[plane].histogram.value = value], value, plane)

PlaneFigure_update_histogram_range(st, plane) ==
    LET image == st.figures[plane]._image[1]
        s0 == IF image_max(image) # 0
              THEN [st EXCEPT !.figures[plane].histogram.start = image_min(image),
                              !.figures[plane].histogram.end = image_max(image),
                              !.figures[plane].histogram.disabled = FALSE]
              ELSE [st EXCEPT !.figures[plane].histogram.start = image_min(image),
                              !.figures[plane].histogram.end = 1,
                              !.figures[plane].histogram.disabled = TRUE]
    IN  set_histogram_value(s0, plane, <<image_min(image), image_max(image)>>)

\* the setter of PlaneFigure.image
PlaneFigure_image_setter(st, plane, value) ==
    LET s1 == PlaneFigure_update_image_source(st, plane, value)
        s2 == [s1 EXCEPT !.figures[plane]._image = <<value>>]
    IN  PlaneFigure_update_histogram_range(s2, plane)

Series_update_image(st, plane, index) ==
    LET image == Series_get_reoriented_image(plane, index)
        s0 == [st EXCEPT !.take_calls = @ \cup {<<plane, index>>}]
    IN  IF image = <<>>
        THEN [s0 EXCEPT !.raised = TRUE]
        ELSE [PlaneFigure_image_setter(s0, plane, image[1])
                EXCEPT !.displayed[plane] = <<TakenAt(plane, index)>>]

Series_get_crosshair_line_plane(plane, line) == crosshair_line_dict[plane][line]

Series_get_crosshair_index(st, plane, line) ==
    Series_get_plane_index(st, Series_get_crosshair_line_plane(plane, line))

Series_get_crosshair_indices(st, plane) ==
    <<Series_get_crosshair_index(st, plane, "VERTICAL"),
      Series_get_crosshair_index(st, plane, "HORIZONTAL")>>

Series_update_crosshair(st, plane) ==
    LET xy == Series_get_crosshair_indices(st, plane)
    IN  PlaneFigure_update_crosshair(st, plane, xy[1], xy[2])

\* the 'data' callback of plane_indices; `replaced` are the keys whose list
\* object the assignment replaced (old[name] is not new[name])
Series_update_figure_indices(st, replaced) ==
    LET others(s, plane, fig) ==
            IF fig # plane THEN Series_update_crosshair(s, fig) ELSE s
        step(s, plane) ==
            IF s.raised \/ plane \notin replaced THEN s
            ELSE LET new_index == s.plane_indices[plane][1]
                     s1 == Series_update_image(s, plane, new_index)
                 IN  IF s1.raised THEN s1
                     ELSE Series_update_crosshair(
                            others(others(others(s1, plane, PlaneOrder[1]),
                                          plane, PlaneOrder[2]),
                                   plane, PlaneOrder[3]),
                            plane)
    IN  ForEachPlane(st, step)

\* the 'value' callback of a slider
Series_update_plane_index(st, new, plane) ==
    Series_update_figure_indices(
        [st EXCEPT !.plane_indices[plane] = <<new>>], {plane})

\* sliders[plane].value = value, with its on_change('value') callback
set_slider_property(st, plane, value) ==
    IF st.sliders[plane] = value
    THEN st
    ELSE Series_update_plane_index(
            [st EXCEPT !.sliders[plane] = value], value, plane)

\* set_slider_value that stores the value as given
Series_set_slider_value_unfixed(st, plane, value) ==
    set_slider_property(
        [st EXCEPT !.fix_calls =
                    @ \cup {<<plane, value, Series_fix_index(plane, value)>>}],
        plane, value)

Series_set_slider_value(st, plane, value) ==
    set_slider_property(
        [st EXCEPT !.fix_calls =
                    @ \cup {<<plane, value, Series_fix_index(plane, value)>>}],
        plane, Series_fix_index(plane, value))

Series_handle_mouse_wheel(st, delta, plane) ==
    LET current_value == st.sliders[plane]
    IN  IF delta > 0 THEN Series_set_slider_value(st, plane, current_value + 1)
        ELSE IF delta < 0 THEN Series_set_slider_value(st, plane, current_value - 1)
        ELSE st

Series_handle_tap(st, event_x, event_y, plane) ==
    LET x == int_of_halves(event_x)
        y == int_of_halves(event_y)
        x_plane == Series_get_crosshair_line_plane(plane, "VERTICAL")
        y_plane == Series_get_crosshair_line_plane(plane, "HORIZONTAL")
        s1 == Series_set_slider_value(st, x_plane, x)
    IN  IF s1.raised THEN s1 ELSE Series_set_slider_value(s1, y_plane, y)

\* Series.__init__: one PlaneFigure per plane, loaded with its slice
Series_init(st) ==
    LET step(s, plane) ==
            IF s.raised THEN s
            ELSE Series_update_image(s, plane, Series_get_plane_index(s, plane))
    IN  ForEachPlane(st, step)

\* the part of create_plane_figure that touches the modelled state
Series_create_plane_figure(st, plane) == Series_update_crosshair(st, plane)

\* create_slider: the slider starts at the plane's index
Series_create_slider(st, plane) ==
    [st EXCEPT !.sliders[plane] = Series_get_plane_index(st, plane)]

Series_run(st) ==
    ForEachPlane(ForEachPlane(st, Series_create_plane_figure),
                 Series_create_slider)

Series_startup(st) ==
    LET s1 == Series_init(st)
    IN  IF s1.raised THEN s1 ELSE Series_run(s1)

-----------------------------------------------------------------------------
(* Palette, crosshair colour and visibility *)

\* utils/palettes.py: palette name -> ordered list of colours
palette_dict ==
    [Greys |-> <<"#000000", "#ffffff">>, Viridis |-> <<"#440154", "#fde725">>]

DEFAULT_PALETTE == "Greys"

get_default_palette == palette_dict[DEFAULT_PALETTE]

\* utils/crosshair.py crosshair_colors, and the options of the Series select
crosshair_colors ==
    <<"Lime", "Green", "Black", "White", "Red", "Cyan", "Yellow", "Blue",
      "Orange", "Purple", "Pink", "Brown", "Indigo", "Grey">>

DEFAULT_CROSSHAIR_COLOR == crosshair_colors[1]

Series_crosshair_colors ==
    <<"Black", "White", "Grey", "Red", "Yellow", "Blue", "Orange", "Purple">>

\* str.lower() on the colour names
str_lower(name) ==
    CASE name = "Lime" -> "lime" [] name = "Green" -> "green"
      [] name = "Black" -> "black" [] name = "White" -> "white"
      [] name = "Red" -> "red" [] name = "Cyan" -> "cyan"
      [] name = "Yellow" -> "yellow" [] name = "Blue" -> "blue"
      [] name = "Orange" -> "orange" [] name = "Purple" -> "purple"
      [] name = "Pink" -> "pink" [] name = "Brown" -> "brown"
      [] name = "Indigo" -> "indigo" [] name = "Grey" -> "grey"

CHECKBOX_LABELS == <<"Crosshair", "Axes">>

\* list.index(label), counted from 0
get_checkbox_index(label) ==
    (CHOOSE n \in 1..Len(CHECKBOX_LABELS) : CHECKBOX_LABELS[n] = label) - 1

\* handle_palette_change that replaces the first plane's colour mapper before
\* it looks the name up
handle_palette_change_eager(st, new) ==
    IF new \notin DOMAIN palette_dict
    THEN [st EXCEPT !.raised = TRUE, !.palette[PlaneOrder[1]] = <<>>]
    ELSE [st EXCEPT !.palette = [plane \in Plane |-> palette_dict[new]]]

handle_palette_change(st, new) ==
    IF new \notin DOMAIN palette_dict
    THEN [st EXCEPT !.raised = TRUE]
    ELSE [st EXCEPT !.palette = [plane \in Plane |-> palette_dict[new]]]

hide_plot_axes(st) == [st EXCEPT !.axes_visible = [plane \in Plane |-> FALSE]]
show_plot_axes(st) == [st EXCEPT !.axes_visible = [plane \in Plane |-> TRUE]]
hide_crosshairs(st) == [st EXCEPT !.crosshair_visible = [plane \in Plane |-> FALSE]]
show_crosshairs(st) == [st EXCEPT !.crosshair_visible = [plane \in Plane |-> TRUE]]

\* handle_checkbox without its second if/else: the axes are left as they are
handle_checkbox_crosshair_only(st, new) ==
    IF get_checkbox_index("Crosshair") \in new
    THEN show_crosshairs(st) ELSE hide_crosshairs(st)

handle_checkbox(st, new) ==
    LET s1 == IF get_checkbox_index("Crosshair") \in new
              THEN show_crosshairs(st) ELSE hide_crosshairs(st)
    IN  IF get_checkbox_index("Axes") \in new
        THEN show_plot_axes(s1) ELSE hide_plot_axes(s1)

\* change_crosshair_color that stops after the first plane of its loop
change_crosshair_color_first_plane(st, new) ==
    [st EXCEPT !.line_color[PlaneOrder[1]] = str_lower(new)]

change_crosshair_color(st, new) ==
    [st EXCEPT !.line_color = [plane \in Plane |-> str_lower(new)]]

Series_handle_palette_change(st, new) ==
    LET palette_name == st.palette_select
    IN  IF palette_name \notin DOMAIN palette_dict
        THEN [st EXCEPT !.raised = TRUE]
        ELSE [st EXCEPT !.palette = [plane \in Plane |-> palette_dict[palette_name]]]

Series_remove_plot_axes(st) == [st EXCEPT !.axes_visible = [plane \in Plane |-> FALSE]]
Series_show_plot_axes(st) == [st EXCEPT !.axes_visible = [plane \in Plane |-> TRUE]]
Series_remove_crosshairs(st) ==
    [st EXCEPT !.crosshair_visible = [plane \in Plane |-> FALSE]]
Series_show_crosshairs(st) ==
    [st EXCEPT !.crosshair_visible = [plane \in Plane |-> TRUE]]

Series_handle_checkbox(st, new) ==
    LET s1 == IF get_checkbox_index("Crosshair") \in new
              THEN Series_show_crosshairs(st) ELSE Series_remove_crosshairs(st)
    IN  IF get_checkbox_index("Axes") \in new
        THEN Series_show_plot_axes(s1) ELSE Series_remove_plot_axes(s1)

Series_change_crosshair_color(st, new) ==
    [st EXCEPT !.line_color = [plane \in Plane |-> str_lower(new)]]

-----------------------------------------------------------------------------
(* Initial state: the widgets and sources as constructed, nothing loaded *)

Apps == {"main", "series"}

Shapes == {<<1, 2, 3>>}

Patterns == {"zero", "ramp", "signed"}

Sample(pattern, i, j, k) ==
    CASE pattern = "zero" -> 0
      [] pattern = "ramp" -> i + j
      [] pattern = "signed" -> k - 2
      [] pattern = "steps" -> j + k

Volume(shape, pattern) ==
    [shape |-> shape,
     val |-> [ijk \in (0..shape[1]-1) \X (0..shape[2]-1) \X (0..shape[3]-1) |->
                Sample(pattern, ijk[1], ijk[2], ijk[3])]]

Volumes == {Volume(shape, pattern) : shape \in Shapes, pattern \in Patterns}

EmptyImageSource == [image |-> <<>>, dw |-> <<>>, dh |-> <<>>]
EmptyCrosshairSource == [x |-> <<>>, y |-> <<>>]
NewRangeSlider == [start |-> 0, end |-> 1, value |-> <<0, 1>>, disabled |-> FALSE]

Instances == 1..MaxInstances

\* PlaneFigure(plane=plane): no image, empty sources, a fresh histogram slider
NewPlaneFigure ==
    [_image |-> <<>>, source |-> EmptyImageSource,
     crosshair_source |-> EmptyCrosshairSource, histogram |-> NewRangeSlider]

\* The class body of Series, before any instance exists.  figures and sliders
\* are the two class-level dicts: for each plane the instance whose
\* constructor or create_slider stored the object now held (0: None).
\* widgets and layout are the class-level list and row.  plane_figure,
\* slider and plane_indices are the objects the instances created, by
\* creating instance; phase is how far each instance has come, self the
\* instance whose method ran last.
SeriesClass ==
    [figures |-> [plane \in Plane |-> 0],
     sliders |-> [plane \in Plane |-> 0],
     widgets |-> <<>>,
     layout |-> <<>>,
     plane_figure |-> [i \in Instances |-> [plane \in Plane |-> NewPlaneFigure]],
     slider |-> [i \in Instances |-> [plane \in Plane |-> 0]],
     plane_indices |-> [i \in Instances |-> [plane \in Plane |-> <<0>>]],
     phase |-> [i \in Instances |-> "none"],
     self |-> 0]

InitFor(apps, volumes) ==
    /\ app \in apps
    /\ data \in volumes
    /\ started = FALSE
    /\ index_sliders = [plane \in Plane |-> 0]
    /\ range_sliders = [plane \in Plane |-> NewRangeSlider]
    /\ sources = [plane \in Plane |->
                    [image |-> EmptyImageSource, crosshair |-> EmptyCrosshairSource]]
    /\ plane_indices = [plane \in Plane |-> <<0>>]
    /\ sliders = [plane \in Plane |-> 0]
    /\ figures = [plane \in Plane |->
                    [_image |-> <<>>, source |-> EmptyImageSource,
                     crosshair_source |-> EmptyCrosshairSource,
                     histogram |-> NewRangeSlider]]
    /\ palette_select = DEFAULT_PALETTE
    /\ crosshair_color_select =
            IF app = "main" THEN DEFAULT_CROSSHAIR_COLOR ELSE "Black"
    /\ palette = [plane \in Plane |-> get_default_palette]
    /\ line_color = [plane \in Plane |-> IF app = "main" THEN "lime" ELSE "black"]
    /\ crosshair_visible = [plane \in Plane |-> TRUE]
    /\ axes_visible = [plane \in Plane |-> FALSE]
    /\ checkbox_active = IF app = "main" THEN {0, 2} ELSE {0}
    /\ event = [type |-> "none", plane |-> ""]
    /\ raised = FALSE
    /\ take_calls = {}
    /\ fix_calls = {}
    /\ slices_set = {}
    /\ cross_set = {}
    /\ displayed = [plane \in Plane |-> <<>>]
    /\ twin_displayed = [plane \in Plane |-> <<>>]
    /\ process = SeriesClass

InitWith(volumes) == InitFor(Apps, volumes)

\* the state a handler leaves, and the event it handled
CommitState(st, type, plane) ==
    /\ index_sliders' = st.index_sliders
    /\ range_sliders' = st.range_sliders
    /\ sources' = st.sources
    /\ plane_indices' = st.plane_indices
    /\ sliders' = st.sliders
    /\ figures' = st.figures
    /\ palette_select' = st.palette_select
    /\ crosshair_color_select' = st.crosshair_color_select
    /\ palette' = st.palette
    /\ line_color' = st.line_color
    /\ crosshair_visible' = st.crosshair_visible
    /\ axes_visible' = st.axes_visible
    /\ checkbox_active' = st.checkbox_active
    /\ displayed' = st.displayed
    /\ raised' = st.raised
    /\ take_calls' = st.take_calls
    /\ fix_calls' = st.fix_calls
    /\ slices_set' = st.slices_set
    /\ cross_set' = st.cross_set
    /\ event' = [type |-> type, plane |-> plane]
    /\ UNCHANGED <<app, data>>

Commit(st, type, plane) ==
    /\ CommitState(st, type, plane)
    /\ UNCHANGED <<twin_displayed, process>>

Init == InitWith(Volumes)

-----------------------------------------------------------------------------
(* Events *)

Deltas == {-1, 1}

WheelType(delta) ==
    IF delta > 0 THEN "wheel_up" ELSE IF delta < 0 THEN "wheel_down" ELSE "wheel_none"

\* tap coordinates in half units: the pixel centres c + 1/2 of the figure, and
\* the half pixel before its origin
TapHalves(extent) == {2 * c + 1 : c \in (-1)..(extent - 1)}

WheelGuard(plane, value) ==
    /\ value >= -MaxDrift
    /\ value <= axis_size(plane) - 1 + MaxDrift

MainStartup ==
    /\ app = "main" /\ ~started
    /\ started' = TRUE
    /\ Commit(main_startup(State), "startup", "")

SeriesStartup ==
    /\ app = "series" /\ ~started
    /\ started' = TRUE
    /\ Commit(Series_startup(State), "startup", "")

MainIndexSlider(plane, value) ==
    /\ app = "main" /\ started
    /\ value # index_sliders[plane]
    /\ Commit(set_index_slider_value(State, plane, value),
              "slider", plane)
    /\ UNCHANGED started

SeriesIndexSlider(plane, value) ==
    /\ app = "series" /\ started
    /\ value # sliders[plane]
    /\ Commit(set_slider_property(State, plane, value),
              "slider", plane)
    /\ UNCHANGED started

MainMouseWheel(plane, delta) ==
    /\ app = "main" /\ started
    /\ WheelGuard(plane, index_sliders[plane] + delta)
    /\ Commit(handle_mouse_wheel(State, delta, plane),
              WheelType(delta), plane)
    /\ UNCHANGED started

SeriesMouseWheel(plane, delta) ==
    /\ app = "series" /\ started
    /\ Commit(Series_handle_mouse_wheel(State, delta, plane),
              WheelType(delta), plane)
    /\ UNCHANGED started

MainTap(plane, event_x, event_y) ==
    /\ app = "main" /\ started
    /\ Commit(handle_tap(State, event_x, event_y, plane),
              "tap", plane)
    /\ UNCHANGED started

SeriesTap(plane, event_x, event_y) ==
    /\ app = "series" /\ started
    /\ Commit(Series_handle_tap(State, event_x, event_y, plane),
              "tap", plane)
    /\ UNCHANGED started

MainRangeSlider(plane, low, high) ==
    /\ app = "main" /\ started
    /\ ~range_sliders[plane].disabled
    /\ low <= high
    /\ <<low, high>> # range_sliders[plane].value
    /\ Commit(set_range_slider_value(State, plane, <<low, high>>),
              "range", plane)
    /\ UNCHANGED started

SeriesRangeSlider(plane, low, high) ==
    /\ app = "series" /\ started
    /\ ~figures[plane].histogram.disabled
    /\ low <= high
    /\ <<low, high>> # figures[plane].histogram.value
    /\ Commit(set_histogram_value(State, plane, <<low, high>>),
              "range", plane)
    /\ UNCHANGED started

PaletteNames == DOMAIN palette_dict \cup {"Unknown"}

MainPaletteSelect(new) ==
    /\ app = "main" /\ started
    /\ new # palette_select
    /\ Commit(handle_palette_change([State EXCEPT !.palette_select = new], new),
              "palette", "")
    /\ UNCHANGED started

SeriesPaletteSelect(new) ==
    /\ app = "series" /\ started
    /\ new # palette_select
    /\ Commit(Series_handle_palette_change(
                    [State EXCEPT !.palette_select = new], new),
              "palette", "")
    /\ UNCHANGED started

MainColorSelect(new) ==
    /\ app = "main" /\ started
    /\ new # crosshair_color_select
    /\ Commit(change_crosshair_color(
                    [State EXCEPT !.crosshair_color_select = new], new),
              "color", "")
    /\ UNCHANGED started

SeriesColorSelect(new) ==
    /\ app = "series" /\ started
    /\ new # crosshair_color_select
    /\ Commit(Series_change_crosshair_color(
                    [State EXCEPT !.crosshair_color_select = new], new),
              "color", "")
    /\ UNCHANGED started

\* a click on button `label` of the checkbox group toggles its membership
Toggled(active, label) ==
    IF label \in active THEN active \ {label} ELSE active \cup {label}

MainCheckbox(label) ==
    /\ app = "main" /\ started
    /\ Commit(handle_checkbox(
                    [State EXCEPT !.checkbox_active = Toggled(checkbox_active, label)],
                    Toggled(checkbox_active, label)),
              "checkbox", "")
    /\ UNCHANGED started

SeriesCheckbox(label) ==
    /\ app = "series" /\ started
    /\ Commit(Series_handle_checkbox(
                    [State EXCEPT !.checkbox_active = Toggled(checkbox_active, label)],
                    Toggled(checkbox_active, label)),
              "checkbox", "")
    /\ UNCHANGED started

\* startup and the events that move through the volume: index slider, wheel, tap
Next ==
    \/ MainStartup
    \/ SeriesStartup
    \/ \E plane \in Plane : \E value \in 0..(axis_size(plane) - 1) :
            MainIndexSlider(plane, value)
    \/ \E plane \in Plane : \E value \in 0..(axis_size(plane) - 1) :
            SeriesIndexSlider(plane, value)
    \/ \E plane \in Plane : \E delta \in Deltas : MainMouseWheel(plane, delta)
    \/ \E plane \in Plane : \E delta \in Deltas : SeriesMouseWheel(plane, delta)
    \/ /\ app = "main" /\ started
       /\ \E plane \in Plane :
            \E event_x \in TapHalves(sources[plane].image.dw[1]) :
                \E event_y \in TapHalves(sources[plane].image.dh[1]) :
                    MainTap(plane, event_x, event_y)
    \/ /\ app = "series" /\ started
       /\ \E plane \in Plane :
            \E event_x \in TapHalves(figures[plane].source.dw[1]) :
                \E event_y \in TapHalves(figures[plane].source.dh[1]) :
                    SeriesTap(plane, event_x, event_y)

Spec == Init /\ [][Next]_vars

\* startup, index slider, wheel and the clamp-range sliders
NextRange ==
    \/ MainStartup
    \/ SeriesStartup
    \/ \E plane \in Plane : \E value \in 0..(axis_size(plane) - 1) :
            MainIndexSlider(plane, value)
    \/ \E plane \in Plane : \E value \in 0..(axis_size(plane) - 1) :
            SeriesIndexSlider(plane, value)
    \/ \E plane \in Plane : \E delta \in Deltas : MainMouseWheel(plane, delta)
    \/ \E plane \in Plane : \E delta \in Deltas : SeriesMouseWheel(plane, delta)
    \/ \E plane \in Plane :
            \E low, high \in range_sliders[plane].start..range_sliders[plane].end :
                MainRangeSlider(plane, low, high)
    \/ \E plane \in Plane :
            \E low, high \in
                    figures[plane].histogram.start..figures[plane].histogram.end :
                SeriesRangeSlider(plane, low, high)

SpecRange == Init /\ [][NextRange]_vars

\* one volume, for the runs that exercise the presentation widgets
InitWidgets == InitWith({Volume(<<1, 1, 2>>, "ramp")})

\* startup, the index events and the presentation widgets
NextWidgets ==
    \/ MainStartup
    \/ SeriesStartup
    \/ \E plane \in Plane : \E value \in 0..(axis_size(plane) - 1) :
            MainIndexSlider(plane, value)
    \/ \E plane \in Plane : \E value \in 0..(axis_size(plane) - 1) :
            SeriesIndexSlider(plane, value)
    \/ \E plane \in Plane : \E delta \in Deltas :
            /\ index_sliders[plane] + delta >= -WidgetsDrift
            /\ index_sliders[plane] + delta <= axis_size(plane) - 1 + WidgetsDrift
            /\ MainMouseWheel(plane, delta)
    \/ \E plane \in Plane : \E delta \in Deltas : SeriesMouseWheel(plane, delta)
    \/ /\ app = "main" /\ started
       /\ \E plane \in Plane :
            \E event_x \in TapHalves(sources[plane].image.dw[1]) :
                \E event_y \in TapHalves(sources[plane].image.dh[1]) :
                    MainTap(plane, event_x, event_y)
    \/ /\ app = "series" /\ started
       /\ \E plane \in Plane :
            \E event_x \in TapHalves(figures[plane].source.dw[1]) :
                \E event_y \in TapHalves(figures[plane].source.dh[1]) :
                    SeriesTap(plane, event_x, event_y)
    \/ \E new \in PaletteNames : MainPaletteSelect(new)
    \/ \E new \in PaletteNames : SeriesPaletteSelect(new)
    \/ \E n \in 1..MaxColors : MainColorSelect(crosshair_colors[n])
    \/ \E n \in 1..MaxColors : SeriesColorSelect(Series_crosshair_colors[n])
    \/ \E label \in 0..(Len(CHECKBOX_LABELS) - 1) : MainCheckbox(label)
    \/ \E label \in 0..(Len(CHECKBOX_LABELS) - 1) : SeriesCheckbox(label)

SpecWidgets == InitWidgets /\ [][NextWidgets]_vars

\* one volume whose slices hold three distinct values, for the runs that
\* exercise the clamp
InitClamp == InitWith({Volume(<<1, 2, 2>>, "steps")})

SpecClamp == InitClamp /\ [][NextRange]_vars

\* app/main.py and a Series on the same volume, fed the same events: each
\* action runs the handler of app/main.py on the state of app/main.py and the
\* handler of Series on the state of Series
Both(m, s) ==
    [m EXCEPT !.plane_indices = s.plane_indices,
              !.sliders = s.sliders,
              !.figures = s.figures,
              !.raised = m.raised \/ s.raised,
              !.take_calls = m.take_calls \cup s.take_calls,
              !.fix_calls = m.fix_calls \cup s.fix_calls,
              !.slices_set = m.slices_set \cup s.slices_set,
              !.cross_set = m.cross_set \cup s.cross_set]

\* the state the Series handlers work on
TwinState == [State EXCEPT !.displayed = twin_displayed]

CommitBoth(m, s, type, plane) ==
    /\ CommitState(Both(m, s), type, plane)
    /\ twin_displayed' = s.displayed
    /\ UNCHANGED process

BothStartup ==
    /\ app = "both" /\ ~started
    /\ started' = TRUE
    /\ CommitBoth(main_startup(State), Series_startup(TwinState), "startup", "")

BothMouseWheel(plane, delta) ==
    /\ app = "both" /\ started
    /\ WheelGuard(plane, index_sliders[plane] + delta)
    /\ CommitBoth(handle_mouse_wheel(State, delta, plane),
                  Series_handle_mouse_wheel(TwinState, delta, plane),
                  WheelType(delta), plane)
    /\ UNCHANGED started

BothTap(plane, event_x, event_y) ==
    /\ app = "both" /\ started
    /\ CommitBoth(handle_tap(State, event_x, event_y, plane),
                  Series_handle_tap(TwinState, event_x, event_y, plane),
                  "tap", plane)
    /\ UNCHANGED started

InitBoth == InitFor({"both"}, Volumes)

NextBoth ==
    \/ BothStartup
    \/ \E plane \in Plane : \E delta \in Deltas : BothMouseWheel(plane, delta)
    \/ /\ app = "both" /\ started
       /\ \E plane \in Plane :
            \E event_x \in TapHalves(sources[plane].image.dw[1]) :
                \E event_y \in TapHalves(sources[plane].image.dh[1]) :
                    BothTap(plane, event_x, event_y)

SpecBoth == InitBoth /\ [][NextBoth]_vars

\* Several Series instances in one process.  An instance has no figures,
\* sliders, widgets or layout attribute of its own: self.figures, self.sliders,
\* self.widgets and self.layout resolve to the class attributes.
\* SelfView is the state the methods of instance `self` work on.
SelfView(h, self) ==
    [State EXCEPT
        !.figures = [plane \in Plane |->
                        IF h.figures[plane] = 0 THEN NewPlaneFigure
                        ELSE h.plane_figure[h.figures[plane]][plane]],
        !.sliders = [plane \in Plane |->
                        IF h.sliders[plane] = 0 THEN 0
                        ELSE h.slider[h.sliders[plane]][plane]],
        !.plane_indices = h.plane_indices[self]]

\* the objects after the methods of instance `self` have left state st
StoreView(h, self, st) ==
    [h EXCEPT
        !.plane_figure = [i \in Instances |-> [plane \in Plane |->
                            IF h.figures[plane] = i THEN st.figures[plane]
                            ELSE h.plane_figure[i][plane]]],
        !.slider = [i \in Instances |-> [plane \in Plane |->
                            IF h.sliders[plane] = i THEN st.sliders[plane]
                            ELSE h.slider[i][plane]]],
        !.plane_indices[self] = st.plane_indices]

\* Series.__init__ of instance `self`
Instance_init(h, self) ==
    LET h1 == [h EXCEPT !.plane_indices[self] = [plane \in Plane |-> <<0>>],
                        !.figures = [plane \in Plane |-> self],
                        !.plane_figure[self] = [plane \in Plane |-> NewPlaneFigure],
                        !.phase[self] = "constructed",
                        !.self = self]
    IN  StoreView(h1, self, Series_init(SelfView(h1, self)))

\* a child of the row: the layout of a PlaneFigure or the widgetbox
FigureLayout(h, plane) ==
    [kind |-> "figure", owner |-> h.figures[plane], plane |-> plane, widgets |-> <<>>]
WidgetBox(widgets) ==
    [kind |-> "widgetbox", owner |-> 0, plane |-> "", widgets |-> widgets]

\* the widgets create_widgets appends, in its order
InstanceWidgets(self) ==
    <<<<self, "histogram_toggle">>>>
        \o [n \in 1..3 |-> <<self, PlaneOrder[n]>>]
        \o <<<<self, "palette_select">>, <<self, "crosshair_color_select">>,
             <<self, "visibility_checkbox">>>>

\* run() of instance `self`
Instance_run(h, self) ==
    LET h1 == [h EXCEPT !.layout = @ \o [n \in 1..3 |-> FigureLayout(h, PlaneOrder[n])],
                        !.widgets = @ \o InstanceWidgets(self),
                        !.sliders = [plane \in Plane |-> self],
                        !.phase[self] = "running",
                        !.self = self]
        h2 == [h1 EXCEPT !.layout = Append(@, WidgetBox(h1.widgets))]
    IN  StoreView(h2, self, Series_run(SelfView(h2, self)))

\* handle_mouse_wheel of instance `self`: self.sliders[plane] is the slider the
\* class attribute holds, and the 'value' callback of that slider is bound to
\* the instance that created it
Instance_handle_mouse_wheel(h, self, delta, plane) ==
    LET owner == h.sliders[plane]
    IN  [StoreView(h, owner,
                   Series_handle_mouse_wheel(SelfView(h, owner), delta, plane))
            EXCEPT !.self = self]

\* the user moves a slider that instance `self` created: the slider takes the
\* value and its callback, update_plane_index of `self`, runs
Instance_update_plane_index(h, self, new, plane) ==
    LET h1 == [h EXCEPT !.slider[self][plane] = new, !.self = self]
    IN  StoreView(h1, self,
                  Series_update_plane_index(SelfView(h1, self), new, plane))

CommitProcess(h, type, plane) ==
    /\ process' = h
    /\ event' = [type |-> type, plane |-> plane]
    /\ UNCHANGED <<app, data, started, index_sliders, range_sliders, sources,
                   plane_indices, sliders, figures, palette_select,
                   crosshair_color_select, palette, line_color,
                   crosshair_visible, axes_visible, checkbox_active,
                   raised, take_calls, fix_calls, slices_set, cross_set,
                   displayed, twin_displayed>>

\* Series(data), one instance after the other
NewSeries(self) ==
    /\ app = "process"
    /\ process.phase[self] = "none"
    /\ IF self = 1 THEN TRUE ELSE process.phase[self - 1] = "running"
    /\ CommitProcess(Instance_init(process, self), "new", "")

RunSeries(self) ==
    /\ app = "process"
    /\ process.phase[self] = "constructed"
    /\ CommitProcess(Instance_run(process, self), "run", "")

InstanceMouseWheel(self, plane, delta) ==
    /\ app = "process"
    /\ process.phase[self] = "running"
    /\ CommitProcess(Instance_handle_mouse_wheel(process, self, delta, plane),
                     WheelType(delta), plane)

InstanceIndexSlider(self, plane, value) ==
    /\ app = "process"
    /\ process.phase[self] = "running"
    /\ value # process.slider[self][plane]
    /\ CommitProcess(Instance_update_plane_index(process, self, value, plane),
                     "slider", plane)

InitProcess == InitFor({"process"}, Volumes)

NextProcess ==
    \/ \E self \in Instances : NewSeries(self)
    \/ \E self \in Instances : RunSeries(self)
    \/ \E self \in Instances : \E plane \in Plane : \E delta \in Deltas :
            InstanceMouseWheel(self, plane, delta)
    \/ \E self \in Instances : \E plane \in Plane :
            \E value \in 0..(axis_size(plane) - 1) :
                InstanceIndexSlider(self, plane, value)

SpecProcess == InitProcess /\ [][NextProcess]_vars

-----------------------------------------------------------------------------
(* Properties *)

InRange(plane, index) == index >= 0 /\ index <= axis_size(plane) - 1

\* the image a plane's source holds: <<image>>, or <<>> when none is loaded
ShownImage(plane) ==
    IF app = "main" THEN sources[plane].image.image
    ELSE figures[plane].source.image

\* the crosshair data a plane's source holds
ShownCrosshair(plane) ==
    IF app = "main" THEN sources[plane].crosshair
    ELSE figures[plane].crosshair_source

\* C1: after any sequence of user events the index held for every plane (the
\* index slider value in app/main.py; the slider value and the plane_indices
\* entry in Series) lies in [0, axis_size-1].
C1_IndicesInRange ==
    \A plane \in Plane :
        /\ app = "main" => InRange(plane, index_sliders[plane])
        /\ app = "series" => /\ InRange(plane, sliders[plane])
                              /\ InRange(plane, plane_indices[plane][1])

\* C2: no event makes get_image_data take a slice at an index outside
\* [0, axis_size-1], and no handling of an event ends in an error.
C2_TakeInRange ==
    /\ \A call \in take_calls : InRange(call[1], call[2])
    /\ ~raised

\* inputs on which fix_index is compared with its contract
FixInputs(plane) == (-(MaxDrift + 2))..(axis_size(plane) + MaxDrift + 1)

FixContract(plane, index, result) ==
    /\ index >= axis_size(plane) => result = 0
    /\ index < 0 => result = axis_size(plane) - 1
    /\ InRange(plane, index) => result = index
    /\ InRange(plane, result)

\* C3: fix_index returns 0 for index >= axis_size, axis_size-1 for index < 0
\* and index itself otherwise, its result is always in [0, axis_size-1], and
\* fix_index of app/main.py and Series._fix_index agree; this holds of every
\* call the handlers made and of every input of FixInputs.
C3_FixIndex ==
    /\ \A call \in fix_calls : FixContract(call[1], call[2], call[3])
    /\ \A plane \in Plane : \A index \in FixInputs(plane) :
            /\ FixContract(plane, index, fix_index(plane, index))
            /\ Series_fix_index(plane, index) = fix_index(plane, index)

\* a handler called fix_index with a negative index, which wrapped to the end
C3_Witness ==
    \E call \in fix_calls :
        call[2] < 0 /\ call[3] = axis_size(call[1]) - 1 /\ call[3] > 0

\* the unclamped slice of the volume a plane shows at index k
SliceAt(plane, k) ==
    IF app = "main" THEN get_image_data(plane, k)
    ELSE Series_get_reoriented_image(plane, k)

\* the clamp-range slider of a plane
RangeOf(plane) ==
    IF app = "main" THEN range_sliders[plane] ELSE figures[plane].histogram

\* slice k of a plane clamped to the plane's current range
ClampedSliceAt(plane, k) ==
    <<Clamp(SliceAt(plane, k)[1], RangeOf(plane).value[1], RangeOf(plane).value[2])>>

\* C4: a wheel-up event on a plane whose index is axis_size-1 leaves the plane
\* displaying slice 0, a wheel-down event on a plane whose index is 0 leaves
\* it displaying slice axis_size-1, clamped to the plane's range (the wheel
\* handler passes index+1 or index-1 on to fix_index, so those are the calls
\* with axis_size and -1).
C4_WheelWraps ==
    \A plane \in Plane :
        /\ (/\ event = [type |-> "wheel_up", plane |-> plane]
            /\ \E call \in fix_calls : call[1] = plane /\ call[2] = axis_size(plane))
           => /\ displayed[plane] = <<0>>
              /\ ShownImage(plane) = ClampedSliceAt(plane, 0)
        /\ (/\ event = [type |-> "wheel_down", plane |-> plane]
            /\ \E call \in fix_calls : call[1] = plane /\ call[2] = -1)
           => /\ displayed[plane] = <<axis_size(plane) - 1>>
              /\ ShownImage(plane) = ClampedSliceAt(plane, axis_size(plane) - 1)

\* a wheel-up at the last slice of a stack of at least two slices has wrapped
C4_Witness ==
    \E plane \in Plane :
        /\ axis_size(plane) >= 2
        /\ event = [type |-> "wheel_up", plane |-> plane]
        /\ \E call \in fix_calls : call[1] = plane /\ call[2] = axis_size(plane)
        /\ displayed[plane] = <<0>>

\* the volume sample with coordinate k on `axis` and u, v on the two other
\* axes, taken in increasing order
VolumeSample(axis, k, u, v) ==
    data.val[CASE axis = 0 -> <<k, u, v>>
               [] axis = 1 -> <<u, k, v>>
               [] axis = 2 -> <<u, v, k>>]

\* the extents of the two axes other than `axis`, in increasing order
OtherExtents(axis) ==
    CASE axis = 0 -> <<data.shape[2], data.shape[3]>>
      [] axis = 1 -> <<data.shape[1], data.shape[3]>>
      [] axis = 2 -> <<data.shape[1], data.shape[2]>>

IsSliceOf(image, plane, k) ==
    LET axis == PlaneValue(plane)
        ext == OtherExtents(axis)
    IN  IF plane = "TRANSVERSE"
        THEN /\ image.shape = ext
             /\ \A u \in 0..(ext[1] - 1) : \A v \in 0..(ext[2] - 1) :
                    image.val[<<u, v>>] = VolumeSample(axis, k, u, v)
        ELSE /\ image.shape = <<ext[2], ext[1]>>
             /\ \A u \in 0..(ext[1] - 1) : \A v \in 0..(ext[2] - 1) :
                    image.val[<<v, u>>] = VolumeSample(axis, k, u, v)

\* C5: for every plane p and index i, the slice at fix_index(p, i) exists, has
\* the extents of the two non-selected axes (in their order for TRANSVERSE,
\* reversed for SAGITTAL and CORONAL) and holds exactly the volume's samples
\* at that index; so do the slices the two implementations display.
C5_SliceShape ==
    /\ \A plane \in Plane : \A index \in FixInputs(plane) :
            LET k == fix_index(plane, index)
            IN  /\ get_image_data(plane, k) # <<>>
                /\ IsSliceOf(get_image_data(plane, k)[1], plane, k)
                /\ Series_get_reoriented_image(plane, k) # <<>>
                /\ IsSliceOf(Series_get_reoriented_image(plane, k)[1], plane, k)
    /\ \A call \in fix_calls :
            ~raised /\ displayed[call[1]] = <<call[3]>>
                => IsSliceOf(ShownImage(call[1])[1], call[1], call[3])

\* a transposed plane shows a non-square slice taken at a wrapped index
C5_Witness ==
    \E call \in fix_calls :
        /\ call[1] \in {"SAGITTAL", "CORONAL"}
        /\ call[2] # call[3]
        /\ displayed[call[1]] = <<call[3]>>
        /\ ShownImage(call[1])[1].shape[1] # ShownImage(call[1])[1].shape[2]

\* a plane's crosshair line: the horizontal line is y[0], the vertical x[1]
CrosshairLine(plane, line) ==
    IF line = "HORIZONTAL" THEN ShownCrosshair(plane).y[1]
    ELSE ShownCrosshair(plane).x[2]

\* the extent a line spans: the slice's width for the horizontal line, its
\* height for the vertical one
LineExtent(plane, line) ==
    IF line = "HORIZONTAL" THEN ShownImage(plane)[1].shape[2]
    ELSE ShownImage(plane)[1].shape[1]

\* the last event set plane p to the in-range index i
SetIndexDone(p, i) ==
    /\ InRange(p, i)
    /\ \/ <<p, i, i>> \in fix_calls
       \/ /\ app = "series"
          /\ event = [type |-> "slider", plane |-> p]
          /\ sliders[p] = i

\* C6: once an event has set plane p to an in-range index i, in every other
\* plane q that has a slice loaded the crosshair line that crosshair_line_dict
\* maps to p is the constant sequence of value i, as long as q's slice is wide
\* (horizontal line) or high (vertical line).
C6_CrosshairFollows ==
    \A p \in Plane : \A i \in 0..(axis_size(p) - 1) :
        SetIndexDone(p, i) =>
            \A q \in Plane \ {p} : \A line \in CrosshairLines :
                (ShownImage(q) # <<>> /\ crosshair_line_dict[q][line] = p)
                    => /\ ShownCrosshair(q) # EmptyCrosshairSource
                       /\ CrosshairLine(q, line) = Repeat(i, LineExtent(q, line))

\* a plane has been set to a nonzero index and a non-square plane shows it
C6_Witness ==
    \E p \in Plane : \E i \in 1..(axis_size(p) - 1) :
        /\ SetIndexDone(p, i)
        /\ \E q \in Plane \ {p} : \E line \in CrosshairLines :
            /\ crosshair_line_dict[q][line] = p
            /\ ShownImage(q) # <<>>
            /\ ShownImage(q)[1].shape[1] # ShownImage(q)[1].shape[2]
            /\ CrosshairLine(q, line) = Repeat(i, LineExtent(q, line))

\* the last event was an index-slider or wheel event that changed p's index
IndexChanged(p) ==
    /\ event.type \in {"slider", "wheel_up", "wheel_down"}
    /\ event.plane = p
    /\ p \in slices_set

\* C7 as claimed: when a plane's index changes, that event recomputes the
\* crosshairs of the other two planes and not the crosshair of the plane itself.
C7_OthersOnly ==
    \A p \in Plane : IndexChanged(p) => cross_set = Plane \ {p}

\* C7 as amended: when a plane's index changes, that event recomputes the
\* crosshairs of the other two planes; app/main.py does not recompute the
\* crosshair of the plane itself, Series recomputes it too.
C7_OthersAndSeriesOwn ==
    \A p \in Plane :
        IndexChanged(p) =>
            /\ (Plane \ {p}) \subseteq cross_set
            /\ app = "main" => p \notin cross_set
            /\ app = "series" => p \in cross_set

\* in app/main.py a plane's index changed and only the two others' crosshairs
\* were recomputed
C7_Witness ==
    \E p \in Plane :
        /\ app = "main"
        /\ IndexChanged(p)
        /\ cross_set = Plane \ {p}
        /\ \A q \in Plane \ {p} : ShownCrosshair(q) # EmptyCrosshairSource

\* the index a plane currently holds
HeldIndex(plane) ==
    IF app = "main" THEN index_sliders[plane] ELSE plane_indices[plane][1]

\* the crosshair of a plane positioned at its two driving planes' indices
ExpectedCrosshair(plane) ==
    LET image == ShownImage(plane)[1]
        x == HeldIndex(crosshair_line_dict[plane]["VERTICAL"])
        y == HeldIndex(crosshair_line_dict[plane]["HORIZONTAL"])
    IN  [x |-> <<np_arange(image.shape[2]), Repeat(x, image.shape[1])>>,
         y |-> <<Repeat(y, image.shape[2]), np_arange(image.shape[1])>>]

\* C8: when startup has completed every plane holds a slice and a crosshair
\* (one horizontal, one vertical sequence) positioned at its two driving
\* planes' current indices; no crosshair is empty.
C8_StartupCrosshairs ==
    event.type = "startup" =>
        \A plane \in Plane :
            /\ ShownImage(plane) # <<>>
            /\ ShownCrosshair(plane) # EmptyCrosshairSource
            /\ ShownCrosshair(plane) = ExpectedCrosshair(plane)

UserEvents ==
    {"slider", "wheel_up", "wheel_down", "tap", "palette", "color", "checkbox"}

\* C9 as claimed: each user interaction recomputes exactly one plane's slice.
C9_ExactlyOneSlice ==
    event.type \in UserEvents => Cardinality(slices_set) = 1

\* C9 as amended: an index-slider move or a wheel event recomputes the slice of
\* the event's plane only (always in app/main.py; in Series not when the
\* wrapped index equals the current one); a tap recomputes at most the slices
\* of the two planes that drive the tapped plane's crosshair lines, never the
\* tapped plane's; palette, colour and checkbox events recompute no slice, no
\* crosshair and take no slice.  With every recomputed slice the crosshairs of
\* the other planes are recomputed and the plane's range is set to the slice's
\* (min, max), all within the handling of the event.
C9_SlicesPerEvent ==
    /\ event.type \in {"slider", "wheel_up", "wheel_down"} =>
            /\ slices_set \subseteq {event.plane}
            /\ app = "main" => slices_set = {event.plane}
    /\ event.type = "tap" =>
            slices_set \subseteq {crosshair_line_dict[event.plane]["VERTICAL"],
                                  crosshair_line_dict[event.plane]["HORIZONTAL"]}
    /\ event.type \in {"palette", "color", "checkbox"} =>
            slices_set = {} /\ cross_set = {} /\ take_calls = {}
    /\ event.type \in {"slider", "wheel_up", "wheel_down", "tap"} =>
            \A q \in slices_set :
                /\ (Plane \ {q}) \subseteq cross_set
                /\ RangeOf(q).value = <<image_min(ShownImage(q)[1]),
                                        image_max(ShownImage(q)[1])>>

\* a tap has recomputed the slices of two planes
C9_Witness ==
    /\ event.type = "tap"
    /\ slices_set = {crosshair_line_dict[event.plane]["VERTICAL"],
                     crosshair_line_dict[event.plane]["HORIZONTAL"]}
    /\ Cardinality(slices_set) = 2

RangeContract(slider, image) ==
    /\ slider.start = image_min(image)
    /\ image_max(image) # 0 => slider.end = image_max(image) /\ ~slider.disabled
    /\ image_max(image) = 0 => slider.end = 1 /\ slider.disabled
    /\ ~slider.disabled <=> image_max(image) # 0

\* C10: update_values_range / update_histogram_range on a slice sets the range
\* start to the slice's minimum; a nonzero maximum becomes the range end and
\* enables the control, a zero maximum gives end 1 and a disabled control, so
\* enabled = (max # 0).  The range computation raises nothing: an event ends in
\* an error only when a slice was taken at an index np.take rejects.
C10_ComputeRange ==
    /\ app = "series" =>
            \A plane \in Plane :
                figures[plane]._image # <<>> =>
                    RangeContract(figures[plane].histogram, figures[plane]._image[1])
    /\ app = "main" =>
            /\ \A call \in fix_calls :
                    RangeContract(range_sliders[call[1]],
                                  get_image_data(call[1], call[3])[1])
            /\ event.type = "startup" =>
                    \A plane \in Plane :
                        RangeContract(range_sliders[plane],
                                      get_image_data(plane, 0)[1])
    /\ raised => \E call \in take_calls : get_image_data(call[1], call[2]) = <<>>

\* in app/main.py an index change has put a slice with maximum zero and a
\* negative minimum on show: the control is disabled with end 1
C10_Witness ==
    \E call \in fix_calls :
        /\ app = "main"
        /\ image_max(get_image_data(call[1], call[3])[1]) = 0
        /\ image_min(get_image_data(call[1], call[3])[1]) < 0
        /\ range_sliders[call[1]].disabled
        /\ range_sliders[call[1]].end = 1

\* every slice of the volume, as get_image_data returns it
AllSlices ==
    UNION {{get_image_data(plane, k)[1] : k \in 0..(axis_size(plane) - 1)} :
                plane \in Plane}

\* the clamp bounds tried on the slices: from below the volume's least sample
\* to above its greatest one
Levels ==
    (SetMin({data.val[ijk] : ijk \in DOMAIN data.val}) - 1)..
        (SetMax({data.val[ijk] : ijk \in DOMAIN data.val}) + 1)

\* the slice the last clamp-range callback of a plane clamped
ClampedFrom(plane) ==
    IF app = "main" THEN get_image_data(plane, index_sliders[plane])[1]
    ELSE figures[plane]._image[1]

\* the last event was a clamp-range event on `plane` whose callback returned
RangeEventDone(plane) ==
    event = [type |-> "range", plane |-> plane] /\ ~raised

ClampContract(out, in, low, high) ==
    /\ out.shape = in.shape
    /\ DOMAIN out.val = DOMAIN in.val
    /\ \A rc \in DOMAIN in.val :
            /\ in.val[rc] <= low => out.val[rc] = low
            /\ in.val[rc] >= high => out.val[rc] = high
            /\ (in.val[rc] > low /\ in.val[rc] < high) => out.val[rc] = in.val[rc]
            /\ out.val[rc] >= low /\ out.val[rc] <= high

\* C11: for every slice and low <= high the clamp of change_displayed_range
\* yields an array of the same shape in which every sample <= low is low, every
\* sample >= high is high and every sample strictly between is unchanged, so
\* every output sample lies in [low, high]; this holds of the clamp as a
\* function (which depends on the volume only, so it is evaluated on the
\* states before startup) and of the image a clamp-range event leaves on show.
C11_ClampSaturates ==
    /\ ~started =>
            \A slice \in AllSlices : \A low \in Levels : \A high \in Levels :
                low <= high =>
                    ClampContract(Clamp(slice, low, high), slice, low, high)
    /\ \A plane \in Plane :
            RangeEventDone(plane) =>
                ClampContract(ShownImage(plane)[1], ClampedFrom(plane),
                              RangeOf(plane).value[1], RangeOf(plane).value[2])

\* a clamp-range event with low < high has changed some samples of the slice
\* on show and kept others
C11_Witness ==
    \E plane \in Plane :
        /\ RangeEventDone(plane)
        /\ RangeOf(plane).value[1] < RangeOf(plane).value[2]
        /\ \E rc \in DOMAIN ClampedFrom(plane).val :
                ShownImage(plane)[1].val[rc] # ClampedFrom(plane).val[rc]
        /\ \E rc \in DOMAIN ClampedFrom(plane).val :
                ShownImage(plane)[1].val[rc] = ClampedFrom(plane).val[rc]

\* C12: the clamp is idempotent: clamping a clamped slice again with the same
\* bounds changes nothing, for every slice and every pair of bounds (evaluated
\* on the states before startup), and for the image a clamp-range event leaves
\* on show.
C12_ClampIdempotent ==
    /\ ~started =>
            \A slice \in AllSlices : \A lo \in Levels : \A hi \in Levels :
                Clamp(Clamp(slice, lo, hi), lo, hi) = Clamp(slice, lo, hi)
    /\ \A plane \in Plane :
            RangeEventDone(plane) =>
                Clamp(ShownImage(plane)[1],
                      RangeOf(plane).value[1], RangeOf(plane).value[2])
                    = ShownImage(plane)[1]

\* a clamp-range event has flattened a slice of three distinct values to one
\* value, and clamping the result again leaves it as it is
C12_Witness ==
    \E plane \in Plane :
        /\ RangeEventDone(plane)
        /\ RangeOf(plane).value[1] = RangeOf(plane).value[2]
        /\ Cardinality(Samples(ClampedFrom(plane))) = 3
        /\ Cardinality(Samples(ShownImage(plane)[1])) = 1
        /\ Clamp(ShownImage(plane)[1],
                 RangeOf(plane).value[1], RangeOf(plane).value[2])
                = ShownImage(plane)[1]

\* the unclamped slice a plane was last given by set_image / the image setter
UnclampedSlice(plane) ==
    IF app = "main"
    THEN get_image_data(plane, fix_index(plane, index_sliders[plane]))[1]
    ELSE figures[plane]._image[1]

\* C13: clamping is non-destructive: the volume stays the volume that was
\* loaded, in PlaneFigure the stored unclamped slice stays the slice of the
\* plane's index, and a clamp-range event that sets the range back to the
\* (min, max) of the plane's unclamped slice leaves that unclamped slice on
\* show again.
C13_ClampRestores ==
    /\ \E pattern \in Patterns \cup {"steps"} : data = Volume(data.shape, pattern)
    /\ app = "series" =>
            \A plane \in Plane :
                figures[plane]._image # <<>> =>
                    figures[plane]._image =
                        Series_get_reoriented_image(plane, plane_indices[plane][1])
    /\ \A plane \in Plane :
            (/\ event = [type |-> "range", plane |-> plane]
             /\ RangeOf(plane).value = <<image_min(UnclampedSlice(plane)),
                                         image_max(UnclampedSlice(plane))>>)
                => ShownImage(plane) = <<UnclampedSlice(plane)>>

\* the range control after update_values_range / update_histogram_range has
\* run on `image`
RangeAfterCompute(image) ==
    IF app = "main"
    THEN update_values_range(
            [State EXCEPT !.sources["TRANSVERSE"].image.image = <<image>>],
            "TRANSVERSE").range_sliders["TRANSVERSE"]
    ELSE PlaneFigure_update_histogram_range(
            [State EXCEPT !.figures["TRANSVERSE"]._image = <<image>>],
            "TRANSVERSE").figures["TRANSVERSE"].histogram

\* a slice with a sample <= low and a sample >= high, low < high, high # 0
SpansBounds(slice, low, high) ==
    /\ low < high
    /\ high # 0
    /\ \E v \in Samples(slice) : v <= low
    /\ \E v \in Samples(slice) : v >= high

RangeIs(slider, low, high) ==
    slider.start = low /\ slider.end = high /\ ~slider.disabled

\* C14: for every slice with a sample <= low and a sample >= high, low < high
\* and high # 0, the range computed from the clamped slice is (low, high,
\* enabled); this holds for every slice of the volume (evaluated on the states
\* before startup) and for the image a clamp-range event leaves on show.
C14_RangeOfClamped ==
    /\ ~started =>
            \A slice \in AllSlices : \A low \in Levels : \A high \in Levels :
                SpansBounds(slice, low, high) =>
                    RangeIs(RangeAfterCompute(Clamp(slice, low, high)), low, high)
    /\ \A plane \in Plane :
            (/\ RangeEventDone(plane)
             /\ SpansBounds(ClampedFrom(plane), RangeOf(plane).value[1],
                            RangeOf(plane).value[2]))
                => RangeIs(RangeAfterCompute(ShownImage(plane)[1]),
                           RangeOf(plane).value[1], RangeOf(plane).value[2])

\* a clamp-range event has narrowed the range of a slice from above, and the
\* range computed from the clamped image on show is the narrowed one
C14_Witness ==
    \E plane \in Plane :
        /\ RangeEventDone(plane)
        /\ SpansBounds(ClampedFrom(plane), RangeOf(plane).value[1],
                       RangeOf(plane).value[2])
        /\ RangeOf(plane).value[2] < RangeOf(plane).end
        /\ RangeIs(RangeAfterCompute(ShownImage(plane)[1]),
                   RangeOf(plane).value[1], RangeOf(plane).value[2])

\* C15: the crosshair line map is a fixed table in which the horizontal and the
\* vertical driver of every plane are the two other planes, so every plane
\* drives exactly one line in each of the other two planes and none in its own;
\* both implementations look the drivers up in this table, and the planes whose
\* slices a tap recomputes are among the tapped plane's two drivers.
C15_LineMap ==
    /\ \A p \in Plane :
            /\ crosshair_line_dict[p]["HORIZONTAL"] \in Plane \ {p}
            /\ crosshair_line_dict[p]["VERTICAL"] \in Plane \ {p}
            /\ crosshair_line_dict[p]["HORIZONTAL"] # crosshair_line_dict[p]["VERTICAL"]
            /\ \A q \in Plane \ {p} :
                    Cardinality({line \in CrosshairLines :
                                    crosshair_line_dict[q][line] = p}) = 1
            /\ \A line \in CrosshairLines :
                    /\ get_crosshair_line_plane(p, line) = crosshair_line_dict[p][line]
                    /\ Series_get_crosshair_line_plane(p, line)
                            = crosshair_line_dict[p][line]
    /\ event.type = "tap" =>
            /\ event.plane \notin slices_set
            /\ \A call \in fix_calls :
                    \E line \in CrosshairLines :
                        crosshair_line_dict[event.plane][line] = call[1]

\* a tap has moved both drivers of the tapped plane
C15_Witness ==
    /\ event.type = "tap"
    /\ {call[1] : call \in fix_calls} = Plane \ {event.plane}
    /\ \A call \in fix_calls : call[2] = call[3] /\ call[2] > 0

\* C16: selecting a palette name that is no key of palette_dict ends in an
\* error and leaves the palette of all three planes as it was before the event.
C16_UnknownPalette ==
    [][(event'.type = "palette" /\ palette_select' \notin DOMAIN palette_dict)
            => (raised' /\ palette' = palette)]_vars

\* after a palette other than the default had been selected, an unknown name
\* was selected and the planes still have the earlier palette
C16_Witness ==
    /\ event.type = "palette"
    /\ palette_select \notin DOMAIN palette_dict
    /\ raised
    /\ \A plane \in Plane :
            palette[plane] = palette_dict["Viridis"]
                /\ palette[plane] # get_default_palette

\* the index-slider value of a plane, as stored
StoredIndex(plane) ==
    IF app = "main" THEN index_sliders[plane] ELSE sliders[plane]

\* the last event was a tap on p at a position within the axes of p's drivers
InRangeTapDone(p) ==
    /\ event = [type |-> "tap", plane |-> p]
    /\ IF app = "main"
       THEN \A line \in CrosshairLines :
                InRange(crosshair_line_dict[p][line],
                        index_sliders[crosshair_line_dict[p][line]])
       ELSE \A call \in fix_calls : InRange(call[1], call[2])

\* C17: a tap on plane p at an in-range position (x, y) ends without an error,
\* sets the index of the plane driving p's vertical line to int(x) and of the
\* plane driving p's horizontal line to int(y) (the indices handed to
\* fix_index are the ones held and displayed afterwards), leaves p's own index
\* and slice alone, and leaves p's crosshair with its vertical line at x and
\* its horizontal line at y.
C17_Tap ==
    \A p \in Plane :
        InRangeTapDone(p) =>
            /\ ~raised
            /\ p \notin slices_set
            /\ \A call \in fix_calls :
                    /\ call[1] # p
                    /\ StoredIndex(call[1]) = call[2]
                    /\ HeldIndex(call[1]) = call[2]
                    /\ displayed[call[1]] = <<call[2]>>
            /\ ShownCrosshair(p) # EmptyCrosshairSource
            /\ CrosshairLine(p, "VERTICAL") =
                    Repeat(StoredIndex(crosshair_line_dict[p]["VERTICAL"]),
                           LineExtent(p, "VERTICAL"))
            /\ CrosshairLine(p, "HORIZONTAL") =
                    Repeat(StoredIndex(crosshair_line_dict[p]["HORIZONTAL"]),
                           LineExtent(p, "HORIZONTAL"))

\* C18: in every state after startup, for every plane p and every other plane
\* q that shows a crosshair, the line of q that p drives sits at the index of
\* the slice currently displayed for p.
C18_LineAtDisplayed ==
    started =>
        \A p \in Plane : \A q \in Plane \ {p} : \A line \in CrosshairLines :
            (/\ crosshair_line_dict[q][line] = p
             /\ displayed[p] # <<>>
             /\ ShownImage(q) # <<>>
             /\ ShownCrosshair(q) # EmptyCrosshairSource)
                => CrosshairLine(q, line) =
                        Repeat(displayed[p][1], LineExtent(q, line))

\* C19: for a plane with at least two slices that displays slice k, a wheel-up
\* event changes the displayed slice to (k+1) mod n and a wheel-down event to
\* (k-1) mod n.
C19_WheelCyclic ==
    [][\A p \in Plane :
            (axis_size(p) >= 2 /\ displayed[p] # <<>>) =>
                /\ event' = [type |-> "wheel_up", plane |-> p] =>
                        displayed'[p] = <<(displayed[p][1] + 1) % axis_size(p)>>
                /\ event' = [type |-> "wheel_down", plane |-> p] =>
                        displayed'[p] = <<(displayed[p][1] - 1) % axis_size(p)>>]_vars

\* C20: a clamp-range event on plane p ends without an error and leaves on
\* show the slice p displayed immediately before the event, clamped to the new
\* range.
C20_ClampSameSlice ==
    [][\A p \in Plane :
            event' = [type |-> "range", plane |-> p] =>
                /\ ~raised'
                /\ displayed'[p] = displayed[p]
                /\ ShownImage(p)' =
                        <<Clamp(SliceAt(p, displayed[p][1])[1],
                                RangeOf(p).value[1]', RangeOf(p).value[2]')>>]_vars

\* the unclamped slice of plane p at the index p displays
DisplayedSlice(p) == SliceAt(p, displayed[p][1])[1]

\* C21: an index change of plane p (index slider, wheel) that sets p's image
\* and ends without an error leaves on show the unclamped slice at the index p
\* displays and p's clamp-range value at that slice's (min, max), whatever
\* the range was before; the clamp ranges, images and displayed indices of the
\* other two planes are as they were.
C21_IndexResetsClamp ==
    [][\A p \in Plane :
            (/\ event'.type \in {"slider", "wheel_up", "wheel_down"}
             /\ event'.plane = p
             /\ p \in slices_set'
             /\ ~raised')
                => /\ ShownImage(p)' = <<DisplayedSlice(p)'>>
                   /\ RangeOf(p).value' =
                            <<image_min(DisplayedSlice(p)'),
                              image_max(DisplayedSlice(p)')>>
                   /\ \A q \in Plane \ {p} :
                            /\ RangeOf(q)' = RangeOf(q)
                            /\ ShownImage(q)' = ShownImage(q)
                            /\ displayed'[q] = displayed[q]]_vars

\* the crosshairs of all planes are visible iff 'Crosshair' is active, and the
\* axes of all planes are visible iff 'Axes' is active
VisibilityAgrees ==
    \A plane \in Plane :
        /\ crosshair_visible[plane] <=>
                get_checkbox_index("Crosshair") \in checkbox_active
        /\ axes_visible[plane] <=> get_checkbox_index("Axes") \in checkbox_active

\* C22: after every checkbox event the crosshairs of all three planes are
\* visible iff the 'Crosshair' label index is in the checkbox's active set and
\* the axes of all three planes are visible iff the 'Axes' label index is in
\* it; and as constructed and after the startup loop the initial active set
\* agrees with the initial visibility (crosshairs shown, axes hidden).
C22_CheckboxVisibility ==
    /\ event.type = "checkbox" => VisibilityAgrees
    /\ event.type \in {"none", "startup"} =>
            /\ VisibilityAgrees
            /\ \A plane \in Plane : crosshair_visible[plane] /\ ~axes_visible[plane]

C22_Witness ==
    /\ event.type = "checkbox"
    /\ get_checkbox_index("Axes") \in checkbox_active
    /\ get_checkbox_index("Crosshair") \notin checkbox_active
    /\ \A plane \in Plane : axes_visible[plane] /\ ~crosshair_visible[plane]

PresentationEvents == {"palette", "color", "checkbox"}

\* C23: a palette selection, a crosshair-colour selection and a checkbox
\* event leave every plane's index, displayed slice, image and crosshair
\* sources and clamp range as they were; the palette event changes at most the
\* palette, the colour event at most the crosshair colour and the checkbox
\* event at most the visibility flags, and after the event each of these has
\* the same value for all three planes.
C23_PresentationOnly ==
    [][event'.type \in PresentationEvents =>
            /\ data' = data
            /\ index_sliders' = index_sliders
            /\ sliders' = sliders
            /\ plane_indices' = plane_indices
            /\ sources' = sources
            /\ figures' = figures
            /\ range_sliders' = range_sliders
            /\ displayed' = displayed
            /\ event'.type # "palette" => palette' = palette
            /\ event'.type # "color" => line_color' = line_color
            /\ event'.type # "checkbox" =>
                    crosshair_visible' = crosshair_visible /\ axes_visible' = axes_visible
            /\ \A p \in Plane : \A q \in Plane :
                    /\ palette'[p] = palette'[q]
                    /\ line_color'[p] = line_color'[q]
                    /\ crosshair_visible'[p] = crosshair_visible'[q]
                    /\ axes_visible'[p] = axes_visible'[q]]_vars

\* a colour was selected while a plane displays a slice other than its first
C23_Witness ==
    /\ event.type = "color"
    /\ \A plane \in Plane :
            /\ line_color[plane] = str_lower(crosshair_color_select)
            /\ line_color[plane] # str_lower(DEFAULT_CROSSHAIR_COLOR)
    /\ \E plane \in Plane : displayed[plane] = <<1>>

\* C24: app/main.py and Series, started on the same volume and fed the same
\* sequence of wheel-up, wheel-down and tap events, display the slice at the
\* same index for every plane after the startup and after every event.
C24_SameSlices ==
    (app = "both" /\ started) =>
        \A plane \in Plane : displayed[plane] = twin_displayed[plane]

\* what a running instance shows: the PlaneFigure objects it created
Shows(i) ==
    [plane \in Plane |-> process.plane_figure[i][plane].source]

\* C25: for every running Series instance i, a step taken by another instance
\* leaves what i shows unchanged, and when that step is the construction or
\* the run() of the other instance it also leaves the figures, sliders,
\* widget list and layout that i's attributes resolve to unchanged.
C25_Isolated ==
    [][\A i \in Instances :
            (process.phase[i] = "running" /\ process'.self # i) =>
                /\ Shows(i)' = Shows(i)
                /\ event'.type \in {"new", "run"} =>
                        /\ process'.figures = process.figures
                        /\ process'.sliders = process.sliders
                        /\ process'.widgets = process.widgets
                        /\ process'.layout = process.layout]_vars

====
